---- MODULE Spec2Model ----
(***************************************************************************)
(* Circuit breaker (utils/circuitBreaker.ts), its use by the subgraph data *)
(* source (CircuitBreakerDataSource.process), the transport outcomes the   *)
(* data source classifies, and the registry of breakers                    *)
(* (managers/circuitBreakerManager.ts).                                    *)
(*                                                                         *)
(* JavaScript runs execute() synchronously up to `await operation()`; the  *)
(* continuation (onSuccess / onFailure, fallback) runs synchronously when  *)
(* the operation settles.  Each synchronous stretch is one action; calls   *)
(* whose operation is pending are counted in inFlight.                     *)
(*                                                                         *)
(* Spec is the data source with its breaker, ClassifierSpec is             *)
(* isInfrastructureFailure applied to every shape of error, ManagerSpec is *)
(* the registry with the breakers it holds.                                *)
(***************************************************************************)
EXTENDS Integers, FiniteSets, Sequences, TLC

\* ---------------------------------------------------------------- bounds
MaxThreshold == 2   \* failureThreshold in 1..MaxThreshold, minimumCallsRequired in 0..MaxThreshold
MaxHalfOpen  == 2   \* halfOpenMaxCalls in 1..MaxHalfOpen
RecoveryTicks == 1  \* recoveryTimeout, in clock ticks
MaxTime      == 2   \* the clock stops at MaxTime
MaxCalls     == 4   \* no call is admitted once totalCalls = MaxCalls
MaxInFlight  == 2   \* operations pending at the same time
MaxCreated   == 3   \* createCircuitBreaker calls made on the manager
MaxManagerCalls == 2  \* calls executed through the registered breakers

\* ------------------------------------------------------------ value sets
CircuitState == {"CLOSED", "OPEN", "HALF_OPEN"}

\* An optional Date is the empty set (undefined) or a singleton {t}.
Undefined == {}

OptionsSet ==
    [failureThreshold     : 1..MaxThreshold,
     recoveryTimeout      : {RecoveryTicks},
     halfOpenMaxCalls     : 1..MaxHalfOpen,
     minimumCallsRequired : 0..MaxThreshold]

\* What a response object (a transport result, or the body embedded in an
\* error) carries in its data and errors fields.
DataValues   == {"undefined", "null", "object"}
ErrorsValues == {"undefined", "array", "string"}

\* No object at all (undefined / null / empty body).
Nothing == [kind |-> "nothing"]

Response(d, e) == [kind |-> "response", data |-> d, errors |-> e]

Responses ==
    { Response("undefined", "undefined"), Response("object", "undefined"),
      Response("null", "array"),          Response("undefined", "array"),
      Response("undefined", "string") }

StatusValues == {404, 429, 500}

\* An error message is the set of its lower-cased words; includes(w) is
\* membership.
Messages == { {"socket", "hang", "up"}, {"unexpected", "token"} }
InvalidStructureMessage == {"invalid", "graphql", "response", "structure"}

\* code "" : no error.code; status 0 : no error.extensions.response.status;
\* body Nothing : no error.extensions.response.body.
Error(c, s, m, b) ==
    [kind |-> "error", code |-> c, status |-> s, message |-> m, body |-> b]

\* What RemoteGraphQLDataSource.process throws: a fetch error carrying a
\* code and no response, an HTTP error carrying extensions.response (status
\* and parsed body) and no code, or a plain error carrying only a message.
TransportErrors ==
    { Error(c, 0, {"request", "failed"}, Nothing) : c \in {"ECONNREFUSED", "ETIMEDOUT"} }
    \cup { Error("", s, {"http", "error"}, b) :
              s \in StatusValues,
              b \in {Nothing, Response("undefined", "undefined"),
                     Response("null", "array"), Response("undefined", "string")} }
    \cup { Error("", 0, m, Nothing) : m \in Messages }

\* What RemoteGraphQLDataSource.process returns.
TransportResults == {Nothing} \cup Responses

ServiceName == "products"

\* -------------------------------------------------------------- variables
VARIABLES
    circuitBreaker,    \* the CircuitBreaker instance's fields
    options,           \* its CircuitBreakerOptions
    now,               \* Date.now(), in clock ticks
    inFlight,          \* execute() calls suspended in `await operation()`
    last,              \* what the latest synchronous stretch did and gave its caller
    streak,            \* history: failed operations in a row, up to failureThreshold
    episodeSuccesses,  \* history: test calls of the current HALF_OPEN episode that succeeded
    recovered,         \* the dependency is back: from here on its operations succeed
    classified,        \* an error and what isInfrastructureFailure said of it
    circuitBreakers,   \* CircuitBreakerManager.circuitBreakers, in the Map's order
    created,           \* CircuitBreaker instances constructed so far
    registered,        \* history: the names, in the order each was first registered
    replaced,          \* breakers no longer in the Map, each still held by its owner
    call               \* what the step just taken, if a call on the manager, gave its caller

vars == <<circuitBreaker, options, now, inFlight, last, streak, episodeSuccesses,
          recovered, classified, circuitBreakers, created, registered, replaced,
          call>>

\* The variables of the data source and its breaker, of the classifier's
\* input and of the manager; each specification leaves the others' idle.
dataSourceVars == <<circuitBreaker, options, inFlight, last, streak, episodeSuccesses,
                    recovered>>
classifierVars == <<classified>>
managerVars    == <<circuitBreakers, created, registered, replaced, call>>

\* ------------------------------------------------------- CircuitBreaker
NewCircuitBreaker ==
    [state           |-> "CLOSED",
     failures        |-> 0,
     successes       |-> 0,
     totalCalls      |-> 0,
     lastFailureTime |-> Undefined,
     nextAttemptTime |-> Undefined,
     halfOpenCalls   |-> 0]

\* Faulty variants of shouldTrip: the minimum-calls gate forgotten; either condition
\* taken as enough.
ShouldTrip_WithoutMinimum(b, o) ==
    b.failures >= o.failureThreshold

ShouldTrip_EitherCondition(b, o) ==
    \/ b.totalCalls >= o.minimumCallsRequired
    \/ b.failures >= o.failureThreshold

ShouldTrip(b, o) ==
    /\ b.totalCalls >= o.minimumCallsRequired
    /\ b.failures >= o.failureThreshold

\* Faulty variant of trip: a recovery window already set is kept.
Trip_KeepingWindow(b, o, t) ==
    [b EXCEPT !.state = "OPEN",
              !.nextAttemptTime = IF @ # Undefined THEN @ ELSE {t + o.recoveryTimeout}]

Trip(b, o, t) ==
    [b EXCEPT !.state = "OPEN", !.nextAttemptTime = {t + o.recoveryTimeout}]

\* Faulty variant of shouldAttemptReset: the clock is not compared.
ShouldAttemptReset_IgnoringClock(b, t) ==
    b.nextAttemptTime # Undefined

ShouldAttemptReset(b, t) ==
    IF b.nextAttemptTime # Undefined
    THEN \E n \in b.nextAttemptTime : t >= n
    ELSE FALSE

\* Faulty variant of reset: the lifetime call counter is cleared as well.
Reset_ClearingTotalCalls(b) ==
    [b EXCEPT !.state = "CLOSED",
              !.failures = 0,
              !.successes = 0,
              !.totalCalls = 0,
              !.halfOpenCalls = 0,
              !.lastFailureTime = Undefined,
              !.nextAttemptTime = Undefined]

\* Faulty variant of reset: nextAttemptTime is not cleared.
Reset_KeepingNextAttempt(b) ==
    [b EXCEPT !.state = "CLOSED",
              !.failures = 0,
              !.successes = 0,
              !.halfOpenCalls = 0,
              !.lastFailureTime = Undefined]

Reset(b) ==
    [b EXCEPT !.state = "CLOSED",
              !.failures = 0,
              !.successes = 0,
              !.halfOpenCalls = 0,
              !.lastFailureTime = Undefined,
              !.nextAttemptTime = Undefined]

\* Faulty variant of onSuccess: a success closes the breaker from OPEN as
\* well as from HALF_OPEN.
OnSuccess_ClosingFromOpen(b, o) ==
    LET b1 == [b EXCEPT !.successes = @ + 1]
    IN  IF b1.state # "CLOSED"
        THEN IF b1.state = "OPEN" \/ b1.halfOpenCalls >= o.halfOpenMaxCalls
             THEN Reset(b1) ELSE b1
        ELSE [b1 EXCEPT !.failures = 0]

\* Faulty variant of onSuccess: > for >= in the comparison with halfOpenMaxCalls.
OnSuccess_StrictLimit(b, o) ==
    LET b1 == [b EXCEPT !.successes = @ + 1]
    IN  IF b1.state = "HALF_OPEN"
        THEN IF b1.halfOpenCalls > o.halfOpenMaxCalls THEN Reset(b1) ELSE b1
        ELSE IF b1.state = "CLOSED"
        THEN [b1 EXCEPT !.failures = 0]
        ELSE b1

OnSuccess(b, o) ==
    LET b1 == [b EXCEPT !.successes = @ + 1]
    IN  IF b1.state = "HALF_OPEN"
        THEN IF b1.halfOpenCalls >= o.halfOpenMaxCalls THEN Reset(b1) ELSE b1
        ELSE IF b1.state = "CLOSED"
        THEN [b1 EXCEPT !.failures = 0]
        ELSE b1

\* Faulty variant of onFailure: HALF_OPEN is not tripped by a failure.
OnFailure_ThresholdOnly(b, o, t) ==
    LET b1 == [b EXCEPT !.failures = @ + 1, !.lastFailureTime = {t}]
    IN  IF b1.state = "CLOSED" /\ ShouldTrip(b1, o)
        THEN Trip(b1, o, t)
        ELSE b1

\* Faulty variant of onFailure: a failure that settles while the breaker is
\* OPEN trips it again, which restarts the recovery window.
OnFailure_RestartingWindow(b, o, t) ==
    LET b1 == [b EXCEPT !.failures = @ + 1, !.lastFailureTime = {t}]
    IN  IF b1.state \in {"HALF_OPEN", "OPEN"}
        THEN Trip(b1, o, t)
        ELSE IF b1.state = "CLOSED" /\ ShouldTrip(b1, o)
        THEN Trip(b1, o, t)
        ELSE b1

OnFailure(b, o, t) ==
    LET b1 == [b EXCEPT !.failures = @ + 1, !.lastFailureTime = {t}]
    IN  IF b1.state = "HALF_OPEN"
        THEN Trip(b1, o, t)
        ELSE IF b1.state = "CLOSED" /\ ShouldTrip(b1, o)
        THEN Trip(b1, o, t)
        ELSE b1

\* Faulty variant of the OPEN -> HALF_OPEN step: the test counter is not cleared.
AttemptRecovery_KeepingCount(b, t) ==
    IF b.state = "OPEN" /\ ShouldAttemptReset(b, t)
    THEN [b EXCEPT !.state = "HALF_OPEN"]
    ELSE b

\* execute(), first block: OPEN whose recovery timeout has expired becomes
\* HALF_OPEN with the test counter cleared.
AttemptRecovery(b, t) ==
    IF b.state = "OPEN" /\ ShouldAttemptReset(b, t)
    THEN [b EXCEPT !.state = "HALF_OPEN", !.halfOpenCalls = 0]
    ELSE b

\* execute() leaves through the OPEN branch's fallback / throw.
BlockedOpen(b, t) == b.state = "OPEN" /\ ~ShouldAttemptReset(b, t)

\* Faulty variant of the half-open limit: > for >=.
HalfOpenLimitReached_OffByOne(b, o) ==
    b.state = "HALF_OPEN" /\ b.halfOpenCalls > o.halfOpenMaxCalls

\* execute() leaves through the half-open limit's fallback / throw.
HalfOpenLimitReached(b, o) ==
    b.state = "HALF_OPEN" /\ b.halfOpenCalls >= o.halfOpenMaxCalls

\* Faulty variant of the tracking: a HALF_OPEN test call is counted in
\* halfOpenCalls only, not in totalCalls.
TrackCall_TestCallsUncounted(b) ==
    IF b.state = "HALF_OPEN"
    THEN [b EXCEPT !.halfOpenCalls = @ + 1]
    ELSE [b EXCEPT !.totalCalls = @ + 1]

\* execute(), pre-execution tracking.
TrackCall(b) ==
    [b EXCEPT !.totalCalls = @ + 1,
              !.halfOpenCalls = IF b.state = "HALF_OPEN" THEN @ + 1 ELSE @]

GetStats(b) ==
    [state           |-> b.state,
     failures        |-> b.failures,
     successes       |-> b.successes,
     totalCalls      |-> b.totalCalls,
     lastFailureTime |-> b.lastFailureTime,
     nextAttemptTime |-> b.nextAttemptTime]

\* ------------------------------------------- CircuitBreakerDataSource
\* Faulty variant of isValidGraphQLResponse: any object passes.
IsValidGraphQLResponse_AnyObject(r) ==
    r # Nothing

IsValidGraphQLResponse(r) ==
    /\ r # Nothing
    /\ \/ r.data # "undefined"
       \/ r.errors = "array"

\* Faulty variant of isInfrastructureFailure: every status from 400 up counts.
IsInfrastructureFailure_Any4xx(e) ==
    IF e.code \in {"ECONNREFUSED", "ENOTFOUND", "ETIMEDOUT", "ECONNRESET"}
    THEN TRUE
    ELSE IF e.status # 0
    THEN e.status >= 400
    ELSE TRUE

\* Faulty variant of isInfrastructureFailure: an error nothing classifies is taken as
\* business-logic.
IsInfrastructureFailure_DefaultBenign(e) ==
    IF e.code \in {"ECONNREFUSED", "ENOTFOUND", "ETIMEDOUT", "ECONNRESET"}
    THEN TRUE
    ELSE IF e.status # 0
    THEN e.status >= 500 \/ e.status \in {408, 429, 503, 504}
    ELSE \/ "timeout" \in e.message
         \/ "connection" \in e.message
         \/ "network" \in e.message
         \/ "socket" \in e.message

IsInfrastructureFailure(e) ==
    IF e.code \in {"ECONNREFUSED", "ENOTFOUND", "ETIMEDOUT", "ECONNRESET"}
    THEN TRUE
    ELSE IF e.status # 0
    THEN IF e.status >= 500
         THEN TRUE
         ELSE IF e.status \in {408, 429, 503, 504}
         THEN TRUE
         ELSE FALSE
    ELSE IF \/ "timeout" \in e.message
            \/ "connection" \in e.message
            \/ "network" \in e.message
            \/ "socket" \in e.message
    THEN TRUE
    ELSE TRUE

\* Faulty variant of the embedded body test: only data is looked at.
HasGraphQLBody_DataOnly(e) ==
    /\ e.status # 0
    /\ e.body # Nothing
    /\ e.body.data # "undefined"

\* response.body && (response.body.data !== undefined || response.body.errors)
HasGraphQLBody(e) ==
    /\ e.status # 0
    /\ e.body # Nothing
    /\ \/ e.body.data # "undefined"
       \/ e.body.errors # "undefined"

Resolved(v) == [settled |-> "resolved", value |-> v]
Rejected(e) == [settled |-> "rejected", value |-> e]

\* The catch block of the operation process() hands to execute().
ClassifyError(e) ==
    IF IsInfrastructureFailure(e)
    THEN Rejected(e)
    ELSE IF HasGraphQLBody(e)
    THEN Resolved(e.body)
    ELSE Rejected(e)

\* The operation process() hands to execute(), given what the transport did:
\* x is a transport result (returned) or a transport error (thrown).
Operation(x) ==
    IF x \in TransportErrors
    THEN ClassifyError(x)
    ELSE IF IsValidGraphQLResponse(x)
    THEN Resolved(x)
    ELSE ClassifyError(Error("", 0, InvalidStructureMessage, Nothing))

\* Math.ceil((nextAttemptTime?.getTime() || Date.now()) - Date.now()), in ticks.
RetryAfter(stats, t) ==
    (IF stats.nextAttemptTime # Undefined
     THEN CHOOSE n \in stats.nextAttemptTime : TRUE
     ELSE t) - t

GetFallbackResponse(b, t) ==
    LET circuitStats == GetStats(b)
    IN  [kind                  |-> "fallback",
         data                  |-> "null",
         code                  |-> "SERVICE_UNAVAILABLE",
         circuitBreakerTripped |-> TRUE,
         serviceName           |-> ServiceName,
         retryAfter            |-> RetryAfter(circuitStats, t)]

\* ------------------------------------------------- CircuitBreakerManager
\* No options object (undefined), no instance (undefined).
NoOptions  == [f \in {} |-> 0]
NoInstance == 0

\* The names and the overrides createCircuitBreaker is called with.  The
\* data source registers `subgraph-${name}`.
NameInputs == {"subgraph-products", "subgraph-reviews"}

OptionFields ==
    {"failureThreshold", "recoveryTimeout", "monitoringPeriod",
     "halfOpenMaxCalls", "minimumCallsRequired"}

\* defaultOptions, read from circuitBreakerConfiguration.
DefaultOptions ==
    [failureThreshold     |-> 5,
     recoveryTimeout      |-> 60000,
     monitoringPeriod     |-> 10000,
     halfOpenMaxCalls     |-> 3,
     minimumCallsRequired |-> 10]

\* options?: Partial<CircuitBreakerOptions>: none, some of the fields, and
\* all five, with values the parameter's type admits.
OverrideInputs ==
    { NoOptions,
      [failureThreshold |-> 1, recoveryTimeout |-> RecoveryTicks,
       minimumCallsRequired |-> 0],
      [failureThreshold |-> 0, recoveryTimeout |-> RecoveryTicks,
       monitoringPeriod |-> 1, halfOpenMaxCalls |-> 0, minimumCallsRequired |-> -1] }

\* { ...target, ...source }: source's own properties are copied last.
Spread(target, source) ==
    [f \in DOMAIN target \cup DOMAIN source |->
        IF f \in DOMAIN source THEN source[f] ELSE target[f]]

\* Faulty variant of the merge: the defaults are spread last.
FinalOptions_DefaultsLast(overrides) ==
    Spread(overrides, DefaultOptions)

\* const finalOptions = { ...this.defaultOptions, ...options }
FinalOptions(overrides) ==
    Spread(DefaultOptions, overrides)

\* new CircuitBreaker(name, options, logger): the constructor's body is
\* empty, it stores its arguments and validates nothing.
Construct(name, finalOptions, instance) ==
    [name |-> name, instance |-> instance, options |-> finalOptions,
     breaker |-> NewCircuitBreaker]

\* What a `new` expression can end in: the instance, or an error thrown
\* (the engine's, or the one the manager's unit test makes the constructor
\* throw).
ConstructionOutcomes == {"returns", "throws"}
ConstructionError == "Circuit breaker creation failed"

HasName(map, name) == \E i \in DOMAIN map : map[i].name = name

\* Faulty variant of Map.set: an entry already stored under the key is kept.
MapSet_KeepingFirst(map, name, entry) ==
    IF HasName(map, name) THEN map ELSE Append(map, entry)

\* Map.prototype.set: a key already present keeps its place in the order.
\* Faulty variant of Map.prototype.set: the entry is added after the others, an
\* entry already under the name staying.
MapSet_Appending(map, name, entry) ==
    Append(map, entry)

MapSet(map, name, entry) ==
    IF HasName(map, name)
    THEN [i \in DOMAIN map |-> IF map[i].name = name THEN entry ELSE map[i]]
    ELSE Append(map, entry)

\* The entry a name has in the Map.
EntryOf(map, name) ==
    LET named == SelectSeq(map, LAMBDA e : e.name = name)
    IN  named[Len(named)]

\* Map.prototype.get, giving the instance or undefined.
GetCircuitBreaker(map, name) ==
    IF HasName(map, name)
    THEN (CHOOSE e \in {map[i] : i \in DOMAIN map} : e.name = name).instance
    ELSE NoInstance

\* getAllStats(): the stats object, its keys in the Map's order.
GetAllStats(map) ==
    [i \in DOMAIN map |-> [name |-> map[i].name, stat |-> GetStats(map[i].breaker)]]

RECURSIVE NamesWhere(_, _)
\* Object.entries(stats).filter(...).map(([name]) => name) for the states in open.
NamesWhere(stats, open) ==
    IF stats = << >>
    THEN << >>
    ELSE LET rest == NamesWhere(Tail(stats), open)
         IN  IF Head(stats).stat.state \in open
             THEN <<Head(stats).name>> \o rest
             ELSE rest

\* Faulty variant of getHealthStatus: every state but CLOSED counts as open.
GetHealthStatus_NotClosed(map) ==
    LET stats == GetAllStats(map)
        openCircuits == NamesWhere(stats, {"OPEN", "HALF_OPEN"})
    IN  [healthy       |-> Len(openCircuits) = 0,
         openCircuits  |-> openCircuits,
         totalCircuits |-> Len(map),
         stats         |-> stats]

GetHealthStatus(map) ==
    LET stats == GetAllStats(map)
        openCircuits == NamesWhere(stats, {"OPEN"})
    IN  [healthy       |-> Len(openCircuits) = 0,
         openCircuits  |-> openCircuits,
         totalCircuits |-> Len(map),
         stats         |-> stats]

\* --------------------------------------------------------------- callers
\* A direct caller of execute(): its operation's value, its operation's
\* error and its fallback's value.
OperationValue == [kind |-> "operation value"]
OperationError == [kind |-> "operation error"]
FallbackValue  == [kind |-> "fallback value"]

OpenError      == [kind |-> "breaker error", message |-> "is OPEN and no fallback provided"]
HalfOpenError  == [kind |-> "breaker error", message |-> "half-open limit reached"]

Via == {"process", "execute"}

\* fallback() as the caller supplied it: process() always supplies
\* getFallbackResponse.
Fallback(via, b, t) ==
    IF via = "process" THEN GetFallbackResponse(b, t) ELSE FallbackValue

NoEvent ==
    [kind |-> "none", via |-> "none", transport |-> "none",
     from |-> "CLOSED", test |-> FALSE,
     invokedOperation |-> FALSE, invokedFallback |-> FALSE,
     outcome |-> "none", value |-> Nothing]

\* The pending calls: test counts those admitted in the HALF_OPEN episode
\* that is still running, other all the rest.
Pending == inFlight.test + inFlight.other

\* Nothing classified yet, no call made on the manager yet.
NotClassified(e) == [error |-> e, done |-> FALSE, infrastructure |-> FALSE]

NoHealth ==
    [healthy |-> TRUE, openCircuits |-> << >>, totalCircuits |-> 0, stats |-> << >>]

NoCall ==
    [op |-> "none", name |-> "", overrides |-> NoOptions,
     outcome |-> "none", error |-> "none", value |-> NoInstance,
     passed |-> NoOptions, logged |-> NoOptions, health |-> NoHealth]

ClassifierIdle == classified = NotClassified(Error("", 0, {}, Nothing))

ManagerIdle ==
    /\ circuitBreakers = << >>
    /\ created = 0
    /\ registered = << >>
    /\ replaced = << >>
    /\ call = NoCall

\* -------------------------------------------------------------------- Init
\* The data source, constructed, with the options of its breaker.
DataSourceInit(o) ==
    /\ options = o
    /\ circuitBreaker = NewCircuitBreaker
    /\ now = 0
    /\ inFlight = [test |-> 0, other |-> 0]
    /\ last = NoEvent
    /\ streak = 0
    /\ episodeSuccesses = 0
    /\ recovered = FALSE

Init ==
    /\ \E o \in OptionsSet : DataSourceInit(o)
    /\ ClassifierIdle
    /\ ManagerIdle

\* ----------------------------------------------------------------- actions
\* Faulty variant of the blocked paths: after the fallback's result (or the
\* error) is produced the call falls through to the tracking and starts its
\* operation as well.
ExecuteBlocked_FallingThrough(via, fb) ==
    LET b1 == AttemptRecovery(circuitBreaker, now)
        open == BlockedOpen(circuitBreaker, now)
    IN  /\ open \/ HalfOpenLimitReached(b1, options)
        /\ circuitBreaker.totalCalls < MaxCalls
        /\ Pending < MaxInFlight
        /\ circuitBreaker' = TrackCall(b1)
        /\ last' = [kind             |-> "blocked",
                    via              |-> via,
                    transport        |-> "none",
                    from             |-> circuitBreaker.state,
                    test             |-> FALSE,
                    invokedOperation |-> TRUE,
                    invokedFallback  |-> fb,
                    outcome          |-> IF fb THEN "returned" ELSE "threw",
                    value            |-> IF fb THEN Fallback(via, b1, now)
                                         ELSE IF open THEN OpenError
                                         ELSE HalfOpenError]
        /\ inFlight' = [inFlight EXCEPT !.other = @ + 1]
        /\ UNCHANGED <<options, now, streak, episodeSuccesses, recovered>>
        /\ UNCHANGED <<classifierVars, managerVars>>

\* execute(operation, fallback) that does not reach operation(): the breaker
\* is OPEN inside its recovery window, or HALF_OPEN at its call limit.  The
\* fallback, when supplied, is invoked in the same synchronous stretch.
ExecuteBlocked(via, fb) ==
    LET b1 == AttemptRecovery(circuitBreaker, now)
        open == BlockedOpen(circuitBreaker, now)
    IN  /\ open \/ HalfOpenLimitReached(b1, options)
        /\ circuitBreaker' = b1
        /\ last' = [kind             |-> "blocked",
                    via              |-> via,
                    transport        |-> "none",
                    from             |-> circuitBreaker.state,
                    test             |-> FALSE,
                    invokedOperation |-> FALSE,
                    invokedFallback  |-> fb,
                    outcome          |-> IF fb THEN "returned" ELSE "threw",
                    value            |-> IF fb THEN Fallback(via, b1, now)
                                         ELSE IF open THEN OpenError
                                         ELSE HalfOpenError]
        /\ inFlight' = IF circuitBreaker.state = "OPEN" /\ b1.state = "HALF_OPEN"
                       THEN [test |-> 0, other |-> Pending]
                       ELSE inFlight
        /\ UNCHANGED <<options, now, streak, episodeSuccesses, recovered>>
        /\ UNCHANGED <<classifierVars, managerVars>>

\* execute(operation, fallback) up to `await operation()`: the call is
\* admitted, counted, and its operation started.
ExecuteAdmitted ==
    LET b1 == AttemptRecovery(circuitBreaker, now)
        b2 == TrackCall(b1)
        newEpisode == circuitBreaker.state = "OPEN" /\ b1.state = "HALF_OPEN"
    IN  /\ ~BlockedOpen(circuitBreaker, now)
        /\ ~HalfOpenLimitReached(b1, options)
        /\ circuitBreaker.totalCalls < MaxCalls
        /\ Pending < MaxInFlight
        /\ circuitBreaker' = b2
        /\ inFlight' = IF b2.state # "HALF_OPEN"
                       THEN [inFlight EXCEPT !.other = @ + 1]
                       ELSE IF newEpisode
                       THEN [test |-> 1, other |-> Pending]
                       ELSE [inFlight EXCEPT !.test = @ + 1]
        /\ episodeSuccesses' = IF newEpisode THEN 0 ELSE episodeSuccesses
        /\ last' = [kind             |-> "admitted",
                    via              |-> "none",
                    transport        |-> "none",
                    from             |-> circuitBreaker.state,
                    test             |-> b2.state = "HALF_OPEN",
                    invokedOperation |-> TRUE,
                    invokedFallback  |-> FALSE,
                    outcome          |-> "pending",
                    value            |-> Nothing]
        /\ UNCHANGED <<options, now, streak, recovered>>
        /\ UNCHANGED <<classifierVars, managerVars>>

\* execute() from the point its operation settles: onSuccess and return, or
\* onFailure and then the fallback (when supplied) or the rethrow.  test
\* says whether the call was admitted in the running HALF_OPEN episode,
\* transport how super.process ended for a call made through process().
Settle(via, transport, fb, test, s) ==
    LET ok == s.settled = "resolved"
        b1 == IF ok THEN OnSuccess(circuitBreaker, options)
              ELSE OnFailure(circuitBreaker, options, now)
        episodeOver == circuitBreaker.state = "HALF_OPEN" /\ b1.state # "HALF_OPEN"
    IN  /\ IF test THEN inFlight.test > 0 ELSE inFlight.other > 0
        /\ circuitBreaker' = b1
        /\ inFlight' = IF episodeOver
                       THEN [test |-> 0, other |-> Pending - 1]
                       ELSE IF test
                       THEN [inFlight EXCEPT !.test = @ - 1]
                       ELSE [inFlight EXCEPT !.other = @ - 1]
        /\ episodeSuccesses' = IF episodeOver THEN 0
                               ELSE IF test /\ ok THEN episodeSuccesses + 1
                               ELSE episodeSuccesses
        /\ streak' = IF streak >= options.failureThreshold THEN streak
                     ELSE IF ~ok THEN streak + 1
                     ELSE IF circuitBreaker.state = "CLOSED" THEN 0
                     ELSE streak
        /\ last' = [kind             |-> IF ok THEN "resolved" ELSE "rejected",
                    via              |-> via,
                    transport        |-> transport,
                    from             |-> circuitBreaker.state,
                    test             |-> test,
                    invokedOperation |-> FALSE,
                    invokedFallback  |-> ~ok /\ fb,
                    outcome          |-> IF ok \/ fb THEN "returned" ELSE "threw",
                    value            |-> IF ok THEN s.value
                                         ELSE IF fb THEN Fallback(via, b1, now)
                                         ELSE s.value]
        /\ UNCHANGED <<options, now, recovered>>
        /\ UNCHANGED <<classifierVars, managerVars>>

\* A direct caller's operation resolves.
OperationResolves(test) ==
    Settle("execute", "none", FALSE, test, Resolved(OperationValue))

\* A direct caller's operation rejects; the caller supplied a fallback or not.
OperationRejects(test, fb) ==
    Settle("execute", "none", fb, test, Rejected(OperationError))

\* process(): super.process(request) returns r.
TransportReturns(test, r) ==
    Settle("process", "returned", TRUE, test, Operation(r))

\* Faulty variant of process(): no fallback is handed to execute().
TransportThrows_WithoutFallback(test, e) ==
    Settle("process", "threw", FALSE, test, Operation(e))

\* process(): super.process(request) throws e.
TransportThrows(test, e) ==
    Settle("process", "threw", TRUE, test, Operation(e))

Tick ==
    /\ now < MaxTime
    /\ now' = now + 1
    /\ call' = NoCall
    /\ UNCHANGED <<dataSourceVars, classifierVars, circuitBreakers, created, registered,
                   replaced>>

Next ==
    \/ \E fb \in BOOLEAN : ExecuteBlocked("execute", fb)
    \/ ExecuteBlocked("process", TRUE)
    \/ ExecuteAdmitted
    \/ \E test \in BOOLEAN : OperationResolves(test)
    \/ \E test \in BOOLEAN, fb \in BOOLEAN : OperationRejects(test, fb)
    \/ \E test \in BOOLEAN, r \in TransportResults : TransportReturns(test, r)
    \/ \E test \in BOOLEAN, e \in TransportErrors : TransportThrows(test, e)
    \/ Tick

Spec == Init /\ [][Next]_vars

\* ------------------------------------------------- recovery, with fairness
\* The direct callers of execute() again, with a dependency that fails
\* until it recovers and whose operations all succeed afterwards.
SubgraphRecovers ==
    /\ ~recovered
    /\ recovered' = TRUE
    /\ UNCHANGED <<circuitBreaker, options, now, inFlight, last, streak,
                   episodeSuccesses>>
    /\ UNCHANGED <<classifierVars, managerVars>>

OperationRejectsWhileDown(test, fb) ==
    ~recovered /\ OperationRejects(test, fb)

\* A pending operation settles.
OperationSettles ==
    \E test \in BOOLEAN :
        \/ OperationResolves(test)
        \/ \E fb \in BOOLEAN : OperationRejectsWhileDown(test, fb)

RecoveryNext ==
    \/ \E fb \in BOOLEAN : ExecuteBlocked("execute", fb)
    \/ ExecuteAdmitted
    \/ OperationSettles
    \/ SubgraphRecovers
    \/ Tick

\* The clock advances, callers keep calling execute(), and every operation
\* that was started settles, after which the event loop runs the rest of
\* its execute().
RecoverySpec ==
    /\ Init
    /\ [][RecoveryNext]_vars
    /\ WF_vars(Tick)
    /\ WF_vars(ExecuteAdmitted)
    /\ WF_vars(OperationSettles)

\* ----------------------------------------------- classifier on its own
\* isInfrastructureFailure reads error.code, error.extensions.response.status
\* and error.message; here it is given every combination of them.
CodeInputs    == {"", "ECONNREFUSED", "ENOTFOUND", "ETIMEDOUT", "ECONNRESET", "EPIPE"}
StatusInputs  == {0, 400, 401, 404, 408, 429, 499, 500, 503, 504}
MessageInputs ==
    { {}, {"request", "timeout"}, {"connection", "refused"}, {"network", "error"},
      {"socket", "hang", "up"}, {"not", "found"} }

ClassifierInputs ==
    { Error(c, st, m, Nothing) :
          c \in CodeInputs, st \in StatusInputs, m \in MessageInputs }

ClassifierInit ==
    /\ DataSourceInit(CHOOSE o \in OptionsSet : TRUE)
    /\ \E e \in ClassifierInputs : classified = NotClassified(e)
    /\ ManagerIdle

\* isInfrastructureFailure(error) is called.
Classify ==
    /\ ~classified.done
    /\ classified' = [classified EXCEPT
                          !.done = TRUE,
                          !.infrastructure = IsInfrastructureFailure(classified.error)]
    /\ UNCHANGED <<dataSourceVars, now, managerVars>>

ClassifierNext == Classify

ClassifierSpec == ClassifierInit /\ [][ClassifierNext]_vars

\* ------------------------------------------------- manager on its own
ManagerInit ==
    /\ DataSourceInit(CHOOSE o \in OptionsSet : TRUE)
    /\ ClassifierIdle
    /\ ManagerIdle

RECURSIVE CallsMade(_)
\* The calls counted by the registered breakers, together.
CallsMade(map) ==
    IF map = << >> THEN 0 ELSE Head(map).breaker.totalCalls + CallsMade(Tail(map))

\* createCircuitBreaker(name, options) with the map it leaves behind when
\* the constructor throws.  What becomes of a breaker it replaces is the
\* caller's part.
Create(name, overrides, construction, mapOnThrow) ==
    LET finalOptions == FinalOptions(overrides)
        instance == created + 1
    IN  /\ created < MaxCreated
        /\ IF construction = "throws"
           THEN /\ circuitBreakers' = mapOnThrow
                /\ UNCHANGED <<created, registered>>
                /\ call' = [NoCall EXCEPT !.op = "create", !.name = name,
                                          !.overrides = overrides,
                                          !.outcome = "threw",
                                          !.error = ConstructionError,
                                          !.passed = finalOptions]
           ELSE /\ circuitBreakers' =
                       MapSet(circuitBreakers, name,
                              Construct(name, finalOptions, instance))
                /\ created' = instance
                /\ registered' = IF \E i \in DOMAIN registered : registered[i] = name
                                 THEN registered
                                 ELSE Append(registered, name)
                /\ call' = [NoCall EXCEPT !.op = "create", !.name = name,
                                          !.overrides = overrides,
                                          !.outcome = "returned",
                                          !.value = instance,
                                          !.passed = finalOptions,
                                          !.logged = finalOptions]
        /\ UNCHANGED <<dataSourceVars, now, classifierVars>>

\* Faulty variant of createCircuitBreaker: the entry under the name is dropped before
\* the breaker is constructed.
CreateCircuitBreaker_DroppingEntry(name, overrides, construction) ==
    /\ Create(name, overrides, construction,
              SelectSeq(circuitBreakers, LAMBDA e : e.name # name))
    /\ UNCHANGED replaced

\* createCircuitBreaker(name, options); a breaker it replaces is not used
\* any more.
CreateCircuitBreaker(name, overrides, construction) ==
    /\ Create(name, overrides, construction, circuitBreakers)
    /\ UNCHANGED replaced

\* createCircuitBreaker(name, options) returning, while the owner of the
\* breaker registered under the name before keeps the instance it was given.
CreateAgain(name, overrides) ==
    /\ Create(name, overrides, "returns", circuitBreakers)
    /\ replaced' = IF HasName(circuitBreakers, name)
                   THEN Append(replaced, EntryOf(circuitBreakers, name))
                   ELSE replaced

\* getCircuitBreaker(name) is called.
CallGetCircuitBreaker(name) ==
    /\ call' = [NoCall EXCEPT !.op = "get", !.name = name, !.outcome = "returned",
                              !.value = GetCircuitBreaker(circuitBreakers, name)]
    /\ UNCHANGED <<dataSourceVars, now, classifierVars,
                   circuitBreakers, created, registered, replaced>>

\* getHealthStatus() is called.
CallGetHealthStatus ==
    /\ call' = [NoCall EXCEPT !.op = "health", !.outcome = "returned",
                              !.health = GetHealthStatus(circuitBreakers)]
    /\ UNCHANGED <<dataSourceVars, now, classifierVars,
                   circuitBreakers, created, registered, replaced>>

\* execute() on the breaker of entry e, with an operation that settles
\* before any other call starts (Spec has the calls that overlap): the
\* breaker's fields afterwards.
Executed(e, ok) ==
    LET b1 == AttemptRecovery(e.breaker, now)
        b2 == TrackCall(b1)
    IN  IF BlockedOpen(e.breaker, now) \/ HalfOpenLimitReached(b1, e.options)
        THEN b1
        ELSE IF ok THEN OnSuccess(b2, e.options)
        ELSE OnFailure(b2, e.options, now)

\* The entries of a sequence after the fields of one instance changed: an
\* instance is one object, wherever it is referred to.
WithBreaker(entries, instance, b) ==
    [i \in DOMAIN entries |->
        IF entries[i].instance = instance
        THEN [entries[i] EXCEPT !.breaker = b]
        ELSE entries[i]]

\* execute() is called on the breaker of entry e.
ExecuteOn(e, ok) ==
    /\ CallsMade(circuitBreakers) + CallsMade(replaced) < MaxManagerCalls
    /\ circuitBreakers' = WithBreaker(circuitBreakers, e.instance, Executed(e, ok))
    /\ replaced' = WithBreaker(replaced, e.instance, Executed(e, ok))
    /\ call' = NoCall
    /\ UNCHANGED <<dataSourceVars, now, classifierVars, created, registered>>

\* execute() on the i-th registered breaker.
ExecuteSettled(i, ok) == ExecuteOn(circuitBreakers[i], ok)

\* execute() on a breaker that was replaced in the Map, by the owner that
\* got it from createCircuitBreaker before.
ExecuteReplaced(i, ok) == ExecuteOn(replaced[i], ok)

\* The clock, as far as one recovery window of an overridden breaker.
ManagerTick == now < RecoveryTicks /\ Tick

ManagerNext ==
    \/ \E name \in NameInputs, overrides \in OverrideInputs,
          construction \in ConstructionOutcomes :
              CreateCircuitBreaker(name, overrides, construction)
    \/ \E name \in NameInputs : CallGetCircuitBreaker(name)
    \/ CallGetHealthStatus
    \/ \E i \in DOMAIN circuitBreakers, ok \in BOOLEAN : ExecuteSettled(i, ok)
    \/ ManagerTick

ManagerSpec == ManagerInit /\ [][ManagerNext]_vars

\* ------------------------------------------- the manager, names re-created
\* Data sources created again under a name in use, as the constructor of
\* CircuitBreakerDataSource does, with options that trip on the first
\* failure; the earlier data source goes on using its breaker.
TrippingOverrides ==
    { o \in OverrideInputs :
        "failureThreshold" \in DOMAIN o /\ o.failureThreshold >= 1 }

ReplacementNext ==
    \/ \E name \in NameInputs, overrides \in TrippingOverrides :
          CreateAgain(name, overrides)
    \/ CallGetHealthStatus
    \/ \E i \in DOMAIN circuitBreakers, ok \in BOOLEAN : ExecuteSettled(i, ok)
    \/ \E i \in DOMAIN replaced, ok \in BOOLEAN : ExecuteReplaced(i, ok)
    \/ ManagerTick

ReplacementSpec == ManagerInit /\ [][ReplacementNext]_vars

\* ================================================================ claims
\* An action formula below is read on the steps that are not clock ticks;
\* on such a step last' describes what the step did, the unprimed variables
\* the state it started in.
CallStep == now' = now

InsideWindow(b, t) == \E n \in b.nextAttemptTime : t < n
WindowExpired(b, t) == \E n \in b.nextAttemptTime : t >= n

\* C1: while the breaker is OPEN and now < nextAttemptTime, every execute
\* call returns the fallback's result when a fallback is supplied, fails with
\* the "is OPEN and no fallback provided" error when none is, and in neither
\* case invokes operation (nor changes the breaker).
C1_OpenBlocksCalls ==
    [][ ( /\ CallStep
          /\ last'.kind \in {"blocked", "admitted"}
          /\ circuitBreaker.state = "OPEN"
          /\ InsideWindow(circuitBreaker, now) )
        => ( /\ last'.kind = "blocked"
             /\ ~last'.invokedOperation
             /\ circuitBreaker'.totalCalls = circuitBreaker.totalCalls
             /\ inFlight' = inFlight
             /\ IF last'.invokedFallback
                THEN /\ last'.outcome = "returned"
                     /\ last'.value = Fallback(last'.via, circuitBreaker, now)
                ELSE /\ last'.outcome = "threw"
                     /\ last'.value = OpenError ) ]_vars

C1_Witness ==
    /\ last.kind = "blocked"
    /\ last.from = "OPEN"
    /\ last.outcome = "threw"
    /\ circuitBreaker.state = "OPEN"
    /\ InsideWindow(circuitBreaker, now)

\* C2: the CLOSED -> OPEN transition happens exactly at a failed call after
\* which totalCalls >= minimumCallsRequired and consecutiveFailures >=
\* failureThreshold both hold, and at no other step: not on failureThreshold
\* failures while totalCalls is below the minimum, not on reaching the
\* minimum with fewer consecutive failures.
C2_TripsExactlyAtThreshold ==
    [][ (CallStep /\ circuitBreaker.state = "CLOSED")
        => /\ circuitBreaker'.state \in {"CLOSED", "OPEN"}
           /\ (circuitBreaker'.state = "OPEN")
              <=> ( /\ last'.kind = "rejected"
                    /\ circuitBreaker'.failures = circuitBreaker.failures + 1
                    /\ circuitBreaker'.totalCalls >= options.minimumCallsRequired
                    /\ circuitBreaker'.failures >= options.failureThreshold ) ]_vars

C2_Witness ==
    /\ last.kind = "rejected"
    /\ last.from = "CLOSED"
    /\ circuitBreaker.state = "OPEN"
    /\ options.minimumCallsRequired = 2
    /\ options.failureThreshold = 2
    /\ circuitBreaker.totalCalls = 2
    /\ circuitBreaker.failures = 2

\* The other half of C2's case: failureThreshold failures in a row while
\* totalCalls is below the minimum leave the breaker CLOSED.
C2_NotBeforeMinimum ==
    /\ last.kind = "rejected"
    /\ circuitBreaker.state = "CLOSED"
    /\ circuitBreaker.failures >= options.failureThreshold
    /\ circuitBreaker.totalCalls < options.minimumCallsRequired

\* C3: as long as no streak of consecutive failed operations has reached
\* failureThreshold (a success in CLOSED ends the streak), the state is
\* CLOSED.
C3_ClosedBelowThreshold ==
    streak < options.failureThreshold => circuitBreaker.state = "CLOSED"

C3_Witness ==
    /\ last.kind = "rejected"
    /\ streak >= 1
    /\ streak < options.failureThreshold
    /\ circuitBreaker.totalCalls >= options.minimumCallsRequired
    /\ circuitBreaker.state = "CLOSED"

\* C4: when the breaker is OPEN, an execute call made at a time >=
\* nextAttemptTime moves it to HALF_OPEN and is itself admitted as the first
\* test call: operation is invoked, totalCalls goes up by one and
\* halfOpenCalls is 1.
C4_FirstCallAfterWindow ==
    [][ ( /\ CallStep
          /\ last'.kind \in {"blocked", "admitted"}
          /\ circuitBreaker.state = "OPEN"
          /\ WindowExpired(circuitBreaker, now) )
        => ( /\ last'.kind = "admitted"
             /\ last'.invokedOperation
             /\ circuitBreaker'.state = "HALF_OPEN"
             /\ circuitBreaker'.halfOpenCalls = 1
             /\ circuitBreaker'.totalCalls = circuitBreaker.totalCalls + 1
             /\ Pending' = Pending + 1 ) ]_vars

C4_Witness ==
    /\ last.kind = "admitted"
    /\ last.from = "OPEN"
    /\ last.invokedOperation
    /\ circuitBreaker.state = "HALF_OPEN"
    /\ circuitBreaker.halfOpenCalls = 1

\* C5: in HALF_OPEN a single failed call moves the breaker to OPEN and sets
\* nextAttemptTime to the time of that failure + recoveryTimeout, replacing
\* the earlier value, whatever number of test calls succeeded before.
C5_HalfOpenFailureTrips ==
    [][ ( /\ CallStep
          /\ last'.kind = "rejected"
          /\ circuitBreaker.state = "HALF_OPEN" )
        => ( /\ circuitBreaker'.state = "OPEN"
             /\ circuitBreaker'.nextAttemptTime = {now + options.recoveryTimeout}
             /\ circuitBreaker'.nextAttemptTime # circuitBreaker.nextAttemptTime ) ]_vars

\* A test call fails after another test call of the same episode succeeded.
C5_Witness ==
    /\ last.kind = "rejected"
    /\ last.from = "HALF_OPEN"
    /\ last.test
    /\ circuitBreaker.state = "OPEN"
    /\ circuitBreaker.halfOpenCalls = 2
    /\ circuitBreaker.successes >= 1
    /\ circuitBreaker.nextAttemptTime = {now + options.recoveryTimeout}

\* C6: in HALF_OPEN, once halfOpenMaxCalls test calls have succeeded the
\* breaker is CLOSED with consecutiveFailures = 0, halfOpenCalls = 0, both
\* timestamps cleared and totalCalls as it was; while fewer test calls have
\* succeeded it is still HALF_OPEN.
C6_ResetAfterAllTestCalls ==
    [][ ( /\ CallStep
          /\ last'.kind = "resolved"
          /\ circuitBreaker.state = "HALF_OPEN" )
        => IF episodeSuccesses + (IF last'.test THEN 1 ELSE 0)
              >= options.halfOpenMaxCalls
           THEN /\ circuitBreaker'.state = "CLOSED"
                /\ circuitBreaker'.failures = 0
                /\ circuitBreaker'.halfOpenCalls = 0
                /\ circuitBreaker'.lastFailureTime = Undefined
                /\ circuitBreaker'.nextAttemptTime = Undefined
                /\ circuitBreaker'.totalCalls = circuitBreaker.totalCalls
           ELSE circuitBreaker'.state = "HALF_OPEN" ]_vars

\* C7: under every interleaving of callers halfOpenCalls never exceeds
\* halfOpenMaxCalls, and the operations admitted in one HALF_OPEN episode
\* (those that succeeded plus those still pending) never exceed it either.
C7_HalfOpenCallLimit ==
    /\ circuitBreaker.halfOpenCalls <= options.halfOpenMaxCalls
    /\ episodeSuccesses + inFlight.test <= options.halfOpenMaxCalls

\* One test slot, held by a pending call; a second caller was refused.
C7_Witness ==
    /\ options.halfOpenMaxCalls = 1
    /\ circuitBreaker.state = "HALF_OPEN"
    /\ inFlight.test = 1
    /\ last.kind = "blocked"
    /\ last.from = "HALF_OPEN"
    /\ ~last.invokedOperation

\* The errors C8 speaks of: an HTTP status present, below 500 and neither
\* 408 nor 429.
BusinessStatus(e) ==
    /\ e.status # 0
    /\ e.status < 500
    /\ e.status \notin {408, 429}

BusinessErrors == {e \in TransportErrors : BusinessStatus(e)}

\* The step is process() settling on a transport error.
TransportThrew == CallStep /\ last'.via = "process" /\ last'.transport = "threw"

\* An embedded response body that carries data and/or errors.
CarriesDataOrErrors(body) ==
    /\ body # Nothing
    /\ body.data # "undefined" \/ body.errors # "undefined"

\* The protected call gave its caller v as a normal result: no failure was
\* counted and no fallback was produced.
ReturnedNormally(v) ==
    /\ last'.kind = "resolved"
    /\ last'.outcome = "returned"
    /\ last'.value = v
    /\ ~last'.invokedFallback
    /\ circuitBreaker'.failures <= circuitBreaker.failures

\* The protected call counted a failure and answered with the fallback.
CountedAndFellBack ==
    /\ last'.kind = "rejected"
    /\ circuitBreaker'.failures = circuitBreaker.failures + 1
    /\ last'.invokedFallback
    /\ last'.outcome = "returned"
    /\ last'.value = GetFallbackResponse(circuitBreaker', now)

NotFoundWithBody ==
    {e \in TransportErrors : e.status = 404 /\ CarriesDataOrErrors(e.body)}

\* C9: a transport error with status 404 whose embedded body carries data
\* and/or errors gives the caller exactly that body and does not increment
\* consecutiveFailures, whatever the breaker's state.
C9_NotFoundBodyReturned ==
    [][ TransportThrew =>
        \A e \in NotFoundWithBody :
            TransportThrows(last'.test, e) => ReturnedNormally(e.body) ]_vars

\* The 404 body came back from a test call in HALF_OPEN.
C9_Witness ==
    /\ last.kind = "resolved"
    /\ last.transport = "threw"
    /\ last.from = "HALF_OPEN"
    /\ last.test
    /\ last.value = Response("null", "array")

\* C10 as stated: whenever getFallbackResponse has just been invoked the
\* breaker is OPEN, or HALF_OPEN at its call limit.
C10_FallbackOnlyWhenBlocking ==
    (last.via = "process" /\ last.invokedFallback)
    => \/ circuitBreaker.state = "OPEN"
       \/ HalfOpenLimitReached(circuitBreaker, options)

\* C10 as amended: getFallbackResponse is invoked when the breaker blocks
\* the call (OPEN, or HALF_OPEN at its call limit), or right after the call's
\* own operation failed; the state is then OPEN, or still CLOSED when the
\* failure did not trip the breaker.
C10_FallbackWhenBlockingOrFailed ==
    (last.via = "process" /\ last.invokedFallback)
    => \/ /\ last.kind = "blocked"
          /\ \/ circuitBreaker.state = "OPEN"
             \/ HalfOpenLimitReached(circuitBreaker, options)
       \/ /\ last.kind = "rejected"
          /\ \/ circuitBreaker.state = "OPEN"
             \/ /\ circuitBreaker.state = "CLOSED"
                /\ last.from = "CLOSED"
                /\ ~ShouldTrip(circuitBreaker, options)

C10_Witness ==
    /\ last.via = "process"
    /\ last.kind = "rejected"
    /\ last.invokedFallback
    /\ last.value = GetFallbackResponse(circuitBreaker, now)
    /\ circuitBreaker.state = "CLOSED"

\* The step is process() answering with the fallback payload.
FallbackProduced == CallStep /\ last'.via = "process" /\ last'.invokedFallback

\* max(0, nextAttemptTime - t), 0 when no nextAttemptTime is set.
UntilNextAttempt(b, t) ==
    IF b.nextAttemptTime = Undefined
    THEN 0
    ELSE LET n == CHOOSE n \in b.nextAttemptTime : TRUE
         IN  IF n > t THEN n - t ELSE 0

\* C11: in every fallback payload process() produces (OPEN inside the
\* window, HALF_OPEN at the call limit, after a failed attempt) retryAfter is
\* max(0, nextAttemptTime - now) and so is never negative, and serviceName is
\* the dependency's name.
C11_RetryAfterNonNegative ==
    [][ FallbackProduced
        => ( /\ last'.value.retryAfter = UntilNextAttempt(circuitBreaker', now)
             /\ last'.value.retryAfter >= 0
             /\ last'.value.serviceName = ServiceName ) ]_vars

\* A call refused at the half-open limit after the clock moved past
\* nextAttemptTime carries a negative retryAfter.
C11_NegativeRetryAfter ==
    /\ last.via = "process"
    /\ last.kind = "blocked"
    /\ last.from = "HALF_OPEN"
    /\ last.value.retryAfter < 0

\* The classification section 4.3 of the specification gives: an error is
\* business-logic exactly when it has none of the connectivity codes and
\* carries a status below 500 other than 408 and 429 (503 and 504 are above
\* 500); every other error is infrastructure.
ReferenceInfrastructure(e) ==
    ~ ( /\ e.code \notin {"ECONNREFUSED", "ENOTFOUND", "ETIMEDOUT", "ECONNRESET"}
        /\ e.status # 0
        /\ e.status < 500
        /\ e.status \notin {408, 429, 503, 504} )

InfrastructureErrors == {e \in TransportErrors : ReferenceInfrastructure(e)}

\* Transport results that carry neither a data field nor an errors array.
InvalidShapes ==
    {r \in TransportResults :
        r = Nothing \/ (r.data = "undefined" /\ r.errors # "array")}

\* process() resolved with the fallback payload: data null and one error
\* whose extensions.code is SERVICE_UNAVAILABLE.
ResolvedWithFallback ==
    /\ last'.outcome = "returned"
    /\ last'.invokedFallback
    /\ last'.value.kind = "fallback"
    /\ last'.value.data = "null"
    /\ last'.value.code = "SERVICE_UNAVAILABLE"

\* C12: a request whose transport attempt ends in an infrastructure failure
\* (an infrastructure error thrown, or a result of invalid shape) and a
\* request the breaker blocks both make process() resolve with the fallback
\* payload; process() never rejects with the transport's error.  Read on a
\* step of process(): a step that counted no failure is the step of no
\* infrastructure failure, and every other step resolves with the fallback.
C12_FallbackInsteadOfError ==
    [][ (CallStep /\ last'.via = "process")
        => /\ last'.outcome # "threw"
           /\ last'.kind \in {"blocked", "rejected", "resolved"}
           /\ last'.kind \in {"blocked", "rejected"} => ResolvedWithFallback
           /\ (last'.kind = "resolved" /\ last'.transport = "threw")
              => \A e \in InfrastructureErrors : ~TransportThrows(last'.test, e)
           /\ (last'.kind = "resolved" /\ last'.transport = "returned")
              => \A r \in InvalidShapes : ~TransportReturns(last'.test, r) ]_vars

\* A test call's transport attempt failed and the caller got the fallback.
C12_Witness ==
    /\ last.via = "process"
    /\ last.transport = "threw"
    /\ last.kind = "rejected"
    /\ last.from = "HALF_OPEN"
    /\ last.outcome = "returned"
    /\ last.value = GetFallbackResponse(circuitBreaker, now)

ConnectivityCodes == {"ECONNREFUSED", "ENOTFOUND", "ETIMEDOUT", "ECONNRESET"}

MentionsTransport(m) ==
    "timeout" \in m \/ "connection" \in m \/ "network" \in m \/ "socket" \in m

\* C13: isInfrastructureFailure agrees with the reference classifier on
\* every combination of code, status and message: (1) a connectivity code
\* gives infrastructure whatever the status; (2) otherwise a status decides
\* alone, infrastructure for >= 500 and for 408, 429, 503, 504, business
\* logic for any other, whatever the message; (3) otherwise a message that
\* mentions timeout, connection, network or socket gives infrastructure;
\* (4) otherwise infrastructure.
C13_ClassifierMatchesReference ==
    classified.done =>
        LET e == classified.error
            infra == classified.infrastructure
        IN  /\ e.code \in ConnectivityCodes => infra
            /\ (e.code \notin ConnectivityCodes /\ e.status # 0)
               => (infra <=> (e.status >= 500 \/ e.status \in {408, 429, 503, 504}))
            /\ (e.code \notin ConnectivityCodes /\ e.status = 0 /\ MentionsTransport(e.message))
               => infra
            /\ (e.code \notin ConnectivityCodes /\ e.status = 0 /\ ~MentionsTransport(e.message))
               => infra
            /\ infra <=> ReferenceInfrastructure(e)

\* A 404 whose message speaks of a timeout was classified business-logic.
C13_Witness ==
    /\ classified.done
    /\ classified.error.code = ""
    /\ classified.error.status = 404
    /\ "timeout" \in classified.error.message
    /\ ~classified.infrastructure

\* An unclassifiable error was classified infrastructure.
C13_DefaultReached ==
    /\ classified.done
    /\ classified.error = Error("EPIPE", 0, {"not", "found"}, Nothing)
    /\ classified.infrastructure

\* C14: every admitted call that ends in an infrastructure failure adds
\* exactly one to consecutiveFailures; a connection-refused error does, and
\* so does a transport result with neither a data field nor an errors array,
\* which is never handed to the caller as a success.  Read on a step of
\* process() that settles a call: a step that counts a failure counts one,
\* and a step that counts none is the step of no infrastructure failure.
C14_InfrastructureFailureCounted ==
    [][ (CallStep /\ last'.via = "process" /\ last'.kind \in {"rejected", "resolved"})
        => /\ last'.kind = "rejected"
              => /\ circuitBreaker'.failures = circuitBreaker.failures + 1
                 /\ last'.value \notin TransportResults
           /\ last'.kind = "resolved"
              => /\ circuitBreaker'.failures # circuitBreaker.failures + 1
                 /\ \A e \in InfrastructureErrors : ~TransportThrows(last'.test, e)
                 /\ \A r \in InvalidShapes : ~TransportReturns(last'.test, r)
                 /\ last'.transport = "returned" => last'.value \notin InvalidShapes ]_vars

\* A result of invalid shape was counted as the second failure in a row.
C14_Witness ==
    /\ last.via = "process"
    /\ last.transport = "returned"
    /\ last.kind = "rejected"
    /\ last.value.kind = "fallback"
    /\ circuitBreaker.failures = 2

\* The state the breaker registered under name n reports.
StateOf(n) ==
    (CHOOSE e \in {circuitBreakers[i] : i \in DOMAIN circuitBreakers} : e.name = n)
        .breaker.state

Registered == {registered[i] : i \in DOMAIN registered}

\* C15: getHealthStatus gives openCircuits = the registered names whose
\* breaker is OPEN, in the order the names were first registered (HALF_OPEN
\* and CLOSED are left out), healthy = false exactly when that list is not
\* empty, totalCircuits = the number of registered names and stats =
\* getAllStats().
C15_HealthStatus ==
    call.op = "health" =>
        LET h == call.health
        IN  /\ h.openCircuits = SelectSeq(registered, LAMBDA n : StateOf(n) = "OPEN")
            /\ h.healthy <=> h.openCircuits = << >>
            /\ h.totalCircuits = Cardinality(Registered)
            /\ h.stats = GetAllStats(circuitBreakers)
            /\ \A i \in DOMAIN h.stats :
                   /\ h.stats[i].name = registered[i]
                   /\ h.stats[i].stat.state = StateOf(registered[i])

\* Two breakers, the first HALF_OPEN and the second OPEN: only the second is
\* reported.
C15_Witness ==
    /\ call.op = "health"
    /\ Len(circuitBreakers) = 2
    /\ circuitBreakers[1].breaker.state = "HALF_OPEN"
    /\ circuitBreakers[2].breaker.state = "OPEN"
    /\ call.health.openCircuits = <<circuitBreakers[2].name>>
    /\ ~call.health.healthy
    /\ call.health.totalCircuits = 2

\* The step is a createCircuitBreaker call that returned / that threw.
CreateReturned == call' # call /\ call'.op = "create" /\ call'.outcome = "returned"
CreateThrew    == call' # call /\ call'.op = "create" /\ call'.outcome = "threw"

Instances(map) == {map[i].instance : i \in DOMAIN map}

\* C16: getCircuitBreaker(name) gives the instance the latest
\* createCircuitBreaker(name, ...) returned and undefined for a name never
\* created; creating under a name already there puts a new, distinct
\* instance in the entry's place and leaves the number of entries as it was.
C16_LatestInstance ==
    [][ /\ \A n \in NameInputs :
            /\ GetCircuitBreaker(circuitBreakers', n) =
                   IF CreateReturned /\ call'.name = n
                   THEN call'.value
                   ELSE GetCircuitBreaker(circuitBreakers, n)
            /\ GetCircuitBreaker(circuitBreakers', n) = NoInstance
               <=> n \notin {registered'[i] : i \in DOMAIN registered'}
        /\ CreateReturned
           => /\ call'.value # NoInstance
              /\ call'.value \notin Instances(circuitBreakers)
              /\ Len(circuitBreakers') =
                     IF HasName(circuitBreakers, call'.name)
                     THEN Len(circuitBreakers)
                     ELSE Len(circuitBreakers) + 1
        /\ call'.op = "get"
           => call'.value = GetCircuitBreaker(circuitBreakers, call'.name) ]_vars

\* The name was created twice and the lookup gave the second instance.
C16_Witness ==
    /\ call.op = "get"
    /\ created = 2
    /\ Len(circuitBreakers) = 1
    /\ call.name = circuitBreakers[1].name
    /\ call.value = 2

\* C17: when constructing the breaker throws, createCircuitBreaker throws
\* that error and leaves the registry as it was: nothing is added under the
\* name, and an entry already under the name stays.
C17_ConstructionErrorPropagates ==
    [][ CreateThrew
        => /\ call'.error = ConstructionError
           /\ call'.value = NoInstance
           /\ circuitBreakers' = circuitBreakers
           /\ GetCircuitBreaker(circuitBreakers', call'.name)
                  = GetCircuitBreaker(circuitBreakers, call'.name) ]_vars

\* The creation that threw was for a name already registered, whose entry
\* is still there.
C17_Witness ==
    /\ call.op = "create"
    /\ call.outcome = "threw"
    /\ call.error = ConstructionError
    /\ HasName(circuitBreakers, call.name)
    /\ GetCircuitBreaker(circuitBreakers, call.name) = 1

Misconfigured(name, o) ==
    \/ name = ""
    \/ o.failureThreshold <= 0
    \/ o.halfOpenMaxCalls <= 0
    \/ o.minimumCallsRequired < 0

\* C18: creating a breaker with a misconfiguration (no name,
\* failureThreshold <= 0, halfOpenMaxCalls <= 0, minimumCallsRequired < 0)
\* fails at construction, so no breaker so configured is ever registered or
\* executed.
C18_MisconfigurationRejected ==
    /\ (call.op = "create" /\ Misconfigured(call.name, call.passed))
       => call.outcome = "threw"
    /\ \A i \in DOMAIN circuitBreakers :
           ~Misconfigured(circuitBreakers[i].name, circuitBreakers[i].options)

\* A breaker created with halfOpenMaxCalls = 0 has been executed and sits in
\* HALF_OPEN, where it admits no call.
C18_MisconfiguredExecuted ==
    \E i \in DOMAIN circuitBreakers :
        /\ circuitBreakers[i].options.halfOpenMaxCalls = 0
        /\ circuitBreakers[i].breaker.totalCalls > 0
        /\ circuitBreakers[i].breaker.state = "HALF_OPEN"

\* C19: the configuration createCircuitBreaker hands to the new breaker, and
\* logs, has for each of the five fields the override's value when the
\* override has the field and the default otherwise.
C19_OverridesWin ==
    call.op = "create" =>
        /\ DOMAIN call.passed = OptionFields
        /\ \A f \in OptionFields :
               call.passed[f] = IF f \in DOMAIN call.overrides
                                THEN call.overrides[f]
                                ELSE DefaultOptions[f]
        /\ DOMAIN call.overrides = {} => call.passed = DefaultOptions
        /\ DOMAIN call.overrides = OptionFields => call.passed = call.overrides
        /\ call.outcome = "returned"
           => /\ call.logged = call.passed
              /\ \E i \in DOMAIN circuitBreakers :
                     /\ circuitBreakers[i].instance = call.value
                     /\ circuitBreakers[i].options = call.passed

\* Three of the five fields were overridden.
C19_Witness ==
    /\ call.op = "create"
    /\ call.outcome = "returned"
    /\ DOMAIN call.overrides =
           {"failureThreshold", "recoveryTimeout", "minimumCallsRequired"}
    /\ call.passed.failureThreshold = 1
    /\ call.passed.halfOpenMaxCalls = DefaultOptions.halfOpenMaxCalls
    /\ call.passed.monitoringPeriod = DefaultOptions.monitoringPeriod

\* C20: nextAttemptTime is undefined exactly when the state is CLOSED (no
\* trip since the creation or the last reset) and defined whenever the state
\* is OPEN or HALF_OPEN.
C20_NextAttemptTimeDefined ==
    /\ circuitBreaker.nextAttemptTime = Undefined <=> circuitBreaker.state = "CLOSED"
    /\ circuitBreaker.state \in {"OPEN", "HALF_OPEN"}
       => Cardinality(circuitBreaker.nextAttemptTime) = 1

\* Back in CLOSED after a trip and a reset, with nextAttemptTime cleared.
C20_Witness ==
    /\ circuitBreaker.state = "CLOSED"
    /\ circuitBreaker.nextAttemptTime = Undefined
    /\ last.kind = "resolved"
    /\ last.from = "HALF_OPEN"

\* HALF_OPEN keeps the nextAttemptTime of the trip, now in the past.
C20_HalfOpenKeepsIt ==
    /\ circuitBreaker.state = "HALF_OPEN"
    /\ WindowExpired(circuitBreaker, now)

\* C21: totalCalls never decreases: reset() leaves it unchanged, every
\* admitted call (one that invokes operation) raises it by exactly one, and
\* a call the breaker blocks, like the completion of an operation, leaves it.
C21_TotalCallsMonotonic ==
    [][ CallStep =>
          /\ circuitBreaker'.totalCalls >= circuitBreaker.totalCalls
          /\ last'.invokedOperation
             => circuitBreaker'.totalCalls = circuitBreaker.totalCalls + 1
          /\ last'.kind \in {"blocked", "resolved", "rejected"}
             => circuitBreaker'.totalCalls = circuitBreaker.totalCalls
          /\ (circuitBreaker.state = "HALF_OPEN" /\ circuitBreaker'.state = "CLOSED")
             => circuitBreaker'.totalCalls = circuitBreaker.totalCalls ]_vars

\* A reset has just happened and the calls made before it are still counted,
\* the test call of the episode among them.
C21_Witness ==
    /\ circuitBreaker.state = "CLOSED"
    /\ last.kind = "resolved"
    /\ last.from = "HALF_OPEN"
    /\ last.test
    /\ circuitBreaker.totalCalls >= options.failureThreshold + 1

\* C22: the successes value getStats reports is the number of operations
\* that have succeeded since the breaker was created: no call lowers it, and
\* the success that resets the breaker from HALF_OPEN to CLOSED is counted
\* on top of the ones before it.
C22_SuccessesNeverDecrease ==
    [][ CallStep =>
          /\ GetStats(circuitBreaker').successes >= GetStats(circuitBreaker).successes
          /\ last'.kind = "resolved"
             => GetStats(circuitBreaker').successes
                    = GetStats(circuitBreaker).successes + 1 ]_vars

\* The reset has cleared the counter: a test call has just succeeded and
\* getStats reports no success at all.
C22_SuccessesLost ==
    /\ last.kind = "resolved"
    /\ last.from = "HALF_OPEN"
    /\ circuitBreaker.state = "CLOSED"
    /\ GetStats(circuitBreaker).successes = 0

\* C23: a breaker that has tripped has totalCalls >= minimumCallsRequired
\* from then on (whatever state it is in later, resets included), so a CLOSED
\* breaker that was reset trips exactly on the failure that brings its
\* consecutive failures to failureThreshold, however few calls were made
\* since the reset.
MinimumCallsMade(b) == b.totalCalls >= options.minimumCallsRequired

C23_MinimumGatesFirstTripOnly ==
    [][ CallStep =>
          /\ circuitBreaker.state # "CLOSED" => MinimumCallsMade(circuitBreaker)
          /\ MinimumCallsMade(circuitBreaker) => MinimumCallsMade(circuitBreaker')
          /\ ( /\ circuitBreaker.state = "CLOSED"
               /\ MinimumCallsMade(circuitBreaker)
               /\ last'.kind = "rejected" )
             => ( circuitBreaker'.state = "OPEN"
                  <=> circuitBreaker.failures + 1 >= options.failureThreshold ) ]_vars

\* Tripped a second time, on the first failure after the reset, with
\* minimumCallsRequired = 2 and at most one call made since the reset: four
\* calls were made in all, two at least before the first trip and then the
\* test call whose success reset the breaker (successes is 0 again, and
\* failures counts from the reset).
C23_Witness ==
    /\ options.failureThreshold = 1
    /\ options.minimumCallsRequired = 2
    /\ options.halfOpenMaxCalls = 1
    /\ circuitBreaker.state = "OPEN"
    /\ last.kind = "rejected"
    /\ last.from = "CLOSED"
    /\ circuitBreaker.totalCalls = 4
    /\ circuitBreaker.failures = 1
    /\ circuitBreaker.successes = 0
    /\ Pending = 0

\* C24: every execute call invokes operation at most once, exactly once
\* when it is admitted and not at all when it is blocked, and invokes
\* fallback at most once; a failed operation is not retried: when an
\* operation settles no operation is started, the call is over and the
\* fallback, if it runs, runs for a failure only.
C24_OperationInvokedOnce ==
    [][ CallStep =>
          /\ last'.kind = "admitted"
             => /\ last'.invokedOperation
                /\ ~last'.invokedFallback
                /\ Pending' = Pending + 1
                /\ circuitBreaker'.totalCalls = circuitBreaker.totalCalls + 1
          /\ last'.kind = "blocked"
             => /\ ~last'.invokedOperation
                /\ Pending' = Pending
                /\ circuitBreaker'.totalCalls = circuitBreaker.totalCalls
                /\ last'.invokedFallback <=> last'.outcome = "returned"
          /\ last'.kind \in {"resolved", "rejected"}
             => /\ ~last'.invokedOperation
                /\ Pending' = Pending - 1
                /\ circuitBreaker'.totalCalls = circuitBreaker.totalCalls
                /\ last'.invokedFallback => last'.kind = "rejected" ]_vars

\* An operation has failed, the fallback answered in its place and nothing
\* is pending: the operation was not started again.
C24_Witness ==
    /\ last.kind = "rejected"
    /\ last.invokedFallback
    /\ ~last.invokedOperation
    /\ last.value = FallbackValue
    /\ Pending = 0
    /\ circuitBreaker.totalCalls = 1

\* C26: under every interleaving of callers, when the breaker moves from
\* HALF_OPEN to CLOSED all halfOpenMaxCalls test calls admitted in that
\* episode have completed successfully: the step is the success of a test
\* call of the episode, the last one still pending, and the others have
\* succeeded before it.
C26_ResetOnlyAfterEpisodeSucceeded ==
    [][ ( /\ CallStep
          /\ circuitBreaker.state = "HALF_OPEN"
          /\ circuitBreaker'.state = "CLOSED" )
        => /\ last'.kind = "resolved"
           /\ last'.test
           /\ inFlight.test = 1
           /\ episodeSuccesses + 1 = options.halfOpenMaxCalls ]_vars

\* The breaker was reset by the success of a call admitted before the
\* episode began.
C26_ResetByEarlierCall ==
    /\ circuitBreaker.state = "CLOSED"
    /\ last.kind = "resolved"
    /\ last.from = "HALF_OPEN"
    /\ ~last.test

\* The breaker was reset by a test call while another test call of the same
\* episode was still pending: it is pending yet, and three calls were made.
C26_ResetWithTestCallInFlight ==
    /\ options.halfOpenMaxCalls = 2
    /\ options.failureThreshold = 1
    /\ circuitBreaker.state = "CLOSED"
    /\ last.kind = "resolved"
    /\ last.from = "HALF_OPEN"
    /\ last.test
    /\ circuitBreaker.totalCalls = 3
    /\ Pending = 1

\* C28: the only state transitions a breaker makes are CLOSED -> OPEN,
\* OPEN -> HALF_OPEN, HALF_OPEN -> OPEN and HALF_OPEN -> CLOSED: never OPEN
\* straight to CLOSED, never CLOSED straight to HALF_OPEN, under every
\* interleaving of calls.
Transitions ==
    { <<"CLOSED", "OPEN">>, <<"OPEN", "HALF_OPEN">>,
      <<"HALF_OPEN", "OPEN">>, <<"HALF_OPEN", "CLOSED">> }

C28_OnlyFourTransitions ==
    [][ circuitBreaker'.state # circuitBreaker.state
        => <<circuitBreaker.state, circuitBreaker'.state>> \in Transitions ]_vars

\* An operation admitted earlier has succeeded while the breaker was OPEN,
\* its recovery window over, and the breaker is OPEN still.
C28_Witness ==
    /\ circuitBreaker.state = "OPEN"
    /\ last.kind = "resolved"
    /\ last.from = "OPEN"
    /\ WindowExpired(circuitBreaker, now)

\* The last step tripped the breaker from HALF_OPEN, which it had reached
\* by CLOSED -> OPEN -> HALF_OPEN.
C28_BackToOpen ==
    /\ circuitBreaker.state = "OPEN"
    /\ last.kind = "rejected"
    /\ last.from = "HALF_OPEN"

\* C29: an execute call the breaker blocks (OPEN before nextAttemptTime, or
\* HALF_OPEN at the call limit) leaves state, consecutiveFailures,
\* totalSuccesses, totalCalls, halfOpenCalls, lastFailureTime and
\* nextAttemptTime as they were, whether it returns the fallback or throws;
\* and while the breaker is OPEN the completion of an operation admitted
\* earlier changes neither state nor nextAttemptTime.
C29_BlockedCallsChangeNothing ==
    [][ CallStep =>
          /\ last'.kind = "blocked"
             => /\ \/ BlockedOpen(circuitBreaker, now)
                   \/ HalfOpenLimitReached(circuitBreaker, options)
                /\ circuitBreaker' = circuitBreaker
          /\ ( /\ circuitBreaker.state = "OPEN"
               /\ last'.kind \in {"resolved", "rejected"} )
             => /\ circuitBreaker'.state = "OPEN"
                /\ circuitBreaker'.nextAttemptTime = circuitBreaker.nextAttemptTime ]_vars

\* An operation admitted before the trip has failed while the breaker was
\* OPEN, at a later time than the trip: failures and lastFailureTime moved,
\* nextAttemptTime is still the one of the trip.
C29_Witness ==
    /\ circuitBreaker.state = "OPEN"
    /\ last.kind = "rejected"
    /\ last.from = "OPEN"
    /\ circuitBreaker.lastFailureTime = {now}
    /\ \E n \in circuitBreaker.nextAttemptTime : n < now + options.recoveryTimeout

\* A call was refused at the half-open limit, without a fallback.
C29_RefusedAtLimit ==
    /\ circuitBreaker.state = "HALF_OPEN"
    /\ last.kind = "blocked"
    /\ last.outcome = "threw"
    /\ last.value = HalfOpenError

\* C27: with halfOpenMaxCalls >= 1 and every interleaving of callers, the
\* breaker is never HALF_OPEN with halfOpenCalls = halfOpenMaxCalls while no
\* admitted operation is in flight; and, every admitted operation settling
\* in the end, each HALF_OPEN episode that has reached its limit ends in
\* CLOSED or in OPEN.
AtHalfOpenLimit ==
    /\ circuitBreaker.state = "HALF_OPEN"
    /\ circuitBreaker.halfOpenCalls = options.halfOpenMaxCalls

C27_NeverStuckAtHalfOpenLimit ==
    /\ [](AtHalfOpenLimit => Pending > 0)
    /\ AtHalfOpenLimit ~> circuitBreaker.state \in {"CLOSED", "OPEN"}

\* At the limit of two test calls, the first of which has succeeded and the
\* second of which is pending; a caller has just been refused.
C27_Witness ==
    /\ options.halfOpenMaxCalls = 2
    /\ AtHalfOpenLimit
    /\ episodeSuccesses = 1
    /\ inFlight = [test |-> 1, other |-> 0]
    /\ last.kind = "blocked"

\* C25: if from some point on every operation succeeds, time keeps
\* advancing past nextAttemptTime and execute calls keep arriving, then a
\* breaker that is OPEN or HALF_OPEN becomes CLOSED with consecutiveFailures
\* = 0.  The model's clock stops at MaxTime and its callers after MaxCalls
\* calls, so the breaker is taken where the window it waits for ends by
\* MaxTime and the test calls its episode lacks are left to be made.
TestCallsLacking ==
    IF circuitBreaker.state = "OPEN"
    THEN options.halfOpenMaxCalls
    ELSE options.halfOpenMaxCalls - circuitBreaker.halfOpenCalls

CanStillRecover ==
    /\ circuitBreaker.totalCalls + TestCallsLacking <= MaxCalls
    /\ \A n \in circuitBreaker.nextAttemptTime : n <= MaxTime

C25_EventuallyClosed ==
    ( /\ recovered
      /\ circuitBreaker.state \in {"OPEN", "HALF_OPEN"}
      /\ CanStillRecover )
    ~> ( circuitBreaker.state = "CLOSED" /\ circuitBreaker.failures = 0 )

\* Closed again by the success of the second of two test calls, after the
\* dependency recovered; failures, which the trip had left at the threshold
\* or above, is 0.
C25_Witness ==
    /\ recovered
    /\ options.halfOpenMaxCalls = 2
    /\ circuitBreaker.state = "CLOSED"
    /\ circuitBreaker.failures = 0
    /\ last.kind = "resolved"
    /\ last.from = "HALF_OPEN"
    /\ last.test
    /\ Pending = 0

\* C30: after createCircuitBreaker is called again with a registered name,
\* getAllStats and getHealthStatus reflect only the new breaker: executing
\* on the replaced breaker, which its earlier owner still holds, changes no
\* registered breaker, and the replaced breaker being OPEN neither makes
\* healthy false nor puts its name in openCircuits.
Newest(n) ==
    LET known == {circuitBreakers[i] : i \in DOMAIN circuitBreakers}
                     \cup {replaced[i] : i \in DOMAIN replaced}
    IN  CHOOSE e \in known :
            /\ e.name = n
            /\ \A other \in known : other.name = n => other.instance <= e.instance

NewestOpen == SelectSeq(registered, LAMBDA n : Newest(n).breaker.state = "OPEN")

ReplacedBreakerChanged ==
    /\ Len(replaced') = Len(replaced)
    /\ \E i \in DOMAIN replaced : replaced'[i].breaker # replaced[i].breaker

C30_ReplacedBreakerIgnored ==
    /\ [][ReplacedBreakerChanged => circuitBreakers' = circuitBreakers]_vars
    /\ [](\A i \in DOMAIN replaced :
             replaced[i].instance \notin Instances(circuitBreakers))
    /\ [](call.op = "health" =>
             LET h == call.health
             IN  /\ h.openCircuits = NewestOpen
                 /\ h.healthy <=> NewestOpen = << >>
                 /\ h.totalCircuits = Len(registered)
                 /\ Len(h.stats) = Len(registered)
                 /\ \A i \in DOMAIN h.stats :
                        /\ h.stats[i].name = registered[i]
                        /\ h.stats[i].stat = GetStats(Newest(registered[i]).breaker))

\* A replaced breaker is OPEN, having been executed; the breaker registered
\* in its place has not been called, and getHealthStatus reports healthy
\* with no open circuit.
C30_Witness ==
    /\ call.op = "health"
    /\ call.health.healthy
    /\ call.health.openCircuits = << >>
    /\ \E i \in DOMAIN replaced :
           /\ replaced[i].breaker.state = "OPEN"
           /\ replaced[i].breaker.totalCalls = 1
           /\ EntryOf(circuitBreakers, replaced[i].name).breaker = NewCircuitBreaker
           /\ EntryOf(circuitBreakers, replaced[i].name).instance > replaced[i].instance

====
